---- MODULE Spec2Model ----
(***************************************************************************)
(* Model of chrome_manager_macos.py: one invocation of main after another  *)
(* on one base directory.  The file system under the base directory, the   *)
(* process table, Chrome's windows and the tool's output are the state.    *)
(***************************************************************************)
EXTENDS Integers, Sequences, FiniteSets, TLC

\* ---------------------------------------------------------------- bounds
MaxIdx == 2      \* instance indices are 1..MaxIdx
MaxCols == 2     \* --arrange N with N in -1..MaxCols
MaxWin == 4      \* Chrome has 0..MaxWin open windows
MaxProcs == 2    \* the process table holds 0..MaxProcs processes
MaxRuns == 2     \* number of invocations of main on the same directory

\* ------------------------------------------------------------- constants
None == "None"
NoneVal == [tag |-> "None"]                 \* Python's None where a list or int may stand
IntVal(n) == [tag |-> "int", val |-> n]
ListVal(s) == [tag |-> "list", items |-> s]
CHROME_PATH == "/Applications/Google Chrome.app/Contents/MacOS/Google Chrome"
BasePort == 9222
CellWidth == 800
CellHeight == 600
ScriptMode == 493     \* 0o755
NewFileMode == 420    \* 0o666 masked by the usual umask 0o022
BaseDir == "DIR"

Idx == 1..MaxIdx

\* ------------------------------------------------------------ file system
\* dirs: the set of existing directory paths; files: path -> [content, mode]
EmptyFs == [dirs |-> {}, files |-> <<>>]

Join(dir, name) == dir \o "/" \o name

DataDir(base_dir, i) == Join(base_dir, ToString(i))

ScriptPath(base_dir, i) == Join(base_dir, "start-" \o ToString(i) \o ".sh")

\* os.makedirs(path, exist_ok): FileExistsError iff the path is there and
\* exist_ok is off
MakedirsRaises(exists, exist_ok) == exists /\ ~exist_ok

\* variant of OpenWrite that opens with "a": the text is added to what is there
OpenAppend(files, path, text) ==
    [p \in DOMAIN files \cup {path} |->
        IF p = path
        THEN [content |-> (IF path \in DOMAIN files THEN files[path].content ELSE <<>>) \o <<text>>,
              mode |-> IF path \in DOMAIN files THEN files[path].mode ELSE NewFileMode]
        ELSE files[p]]

\* open(path, "w") + write: truncates; a new file gets the default mode, an
\* existing one keeps its mode
OpenWrite(files, path, text) ==
    [p \in DOMAIN files \cup {path} |->
        IF p = path
        THEN [content |-> <<text>>,
              mode |-> IF path \in DOMAIN files THEN files[path].mode ELSE NewFileMode]
        ELSE files[p]]

Chmod(files, path, mode) == [files EXCEPT ![path].mode = mode]

\* variant of Port that forgets to subtract start
PortAbsolute(i, start) == BasePort + i

\* port = 9222 + i - start
Port(i, start) == BasePort + i - start

\* the text written at line 48: shebang line, then the launch command
ScriptText(data_dir, port) ==
    [shebang |-> "#!/bin/bash", bin |-> CHROME_PATH, userDataDir |-> data_dir,
     port |-> port, background |-> TRUE]

\* variant of PyRange that counts down when a >= b
PyRangeEitherWay(a, b) == (IF a < b THEN a ELSE b - 1)..(IF a < b THEN b - 1 ELSE a)

\* range(a, b) of Python, as the set it iterates in ascending order
PyRange(a, b) == a..(b - 1)

\* the body of the for loop (lines 43-50) on the state st of the call
LoopBody(i, start, base_dir, st) ==
    LET data_dir == DataDir(base_dir, i)
        script_path == ScriptPath(base_dir, i)
        port == Port(i, start)
    IN  IF MakedirsRaises(data_dir \in st.fs.dirs, TRUE)
        THEN [st EXCEPT !.err = "FileExistsError"]
        ELSE [fs |-> [dirs |-> st.fs.dirs \cup {data_dir},
                      files |-> Chmod(OpenWrite(st.fs.files, script_path,
                                                ScriptText(data_dir, port)),
                                      script_path, ScriptMode)],
              out |-> Append(st.out, <<"created", script_path>>),
              err |-> None]

RECURSIVE Loop(_, _, _, _)
Loop(todo, start, base_dir, st) ==
    IF todo = {} \/ st.err # None THEN st
    ELSE LET i == CHOOSE m \in todo : \A n \in todo : m <= n
         IN  Loop(todo \ {i}, start, base_dir, LoopBody(i, start, base_dir, st))

\* create_env_scripts(start, end, base_dir) on file system fs with output out
create_env_scripts(start, end, base_dir, fs, out) ==
    IF MakedirsRaises(base_dir \in fs.dirs, TRUE)
    THEN [fs |-> fs, out |-> out, err |-> "FileExistsError"]
    ELSE Loop(PyRange(start, end + 1), start, base_dir,
              [fs |-> [fs EXCEPT !.dirs = @ \cup {base_dir}], out |-> out, err |-> None])

\* ------------------------------------------------------------ environment
Envs == [chrome : BOOLEAN, osascript : BOOLEAN]

\* variant of verify_environment without the osascript check
VerifyChromeOnly(e) ==
    IF ~e.chrome THEN "missing_chrome" ELSE None

\* verify_environment: None on success, else the SystemExit message
verify_environment(e) ==
    IF ~e.chrome THEN "missing_chrome"
    ELSE IF ~e.osascript THEN "missing_osascript"
    ELSE None

\* ---------------------------------------------------------- process table
\* one entry of psutil.process_iter(["name", "cmdline"]): a field the process
\* facility could not read (AccessDenied, zombie) is None; a process that has
\* exited is not in the iteration at all
DataDirFlag == "--user-data-dir=DIR/1"

ManagedCmd == ListVal(<<CHROME_PATH, DataDirFlag, "--remote-debugging-port=9222">>)

PlainCmd == ListVal(<<CHROME_PATH>>)

ProcInfos ==
    { [name |-> "Google Chrome", cmdline |-> ManagedCmd],
      [name |-> "Google Chrome", cmdline |-> PlainCmd],
      [name |-> "Google Chrome", cmdline |-> NoneVal],
      [name |-> "Google Chrome Helper", cmdline |-> ManagedCmd],
      [name |-> None, cmdline |-> NoneVal] }

ProcTables == UNION { [1..n -> ProcInfos] : n \in 0..MaxProcs }

\* dict.get(key, default): the default only when the key is missing
DictGet(d, key, default) == IF key \in DOMAIN d THEN d[key] ELSE default

\* "--user-data-dir=" in " ".join(cmdline): the marker holds no blank, so it is
\* in the joined text iff it is in one of the joined words
HasMarker(word) == word = DataDirFlag

MarkerInJoined(words) == \E k \in 1..Len(words) : HasMarker(words[k])

\* list_chrome_processes on the table ps, from entry k on, acc collected so far;
\* the result is the list of table positions kept, or the error raised
RECURSIVE ListFrom(_, _, _)
ListFrom(ps, k, acc) ==
    IF k > Len(ps) THEN [items |-> acc, err |-> None]
    ELSE IF ps[k].name = "Google Chrome"
         THEN LET cl == DictGet(ps[k], "cmdline", ListVal(<<>>))
              IN  IF cl.tag # "list"
                  THEN [items |-> <<>>, err |-> "TypeError"]   \* " ".join(None)
                  ELSE IF MarkerInJoined(cl.items)
                       THEN ListFrom(ps, k + 1, Append(acc, k))
                       ELSE ListFrom(ps, k + 1, acc)
         ELSE ListFrom(ps, k + 1, acc)

list_chrome_processes(ps) == ListFrom(ps, 1, <<>>)

\* ------------------------------------------------------------- AppleScript
Abs(a) == IF a < 0 THEN 0 - a ELSE a

\* AppleScript's div truncates toward zero; mod takes the sign of the dividend
ASDiv(a, b) ==
    IF (a < 0) = (b < 0) THEN Abs(a) \div Abs(b) ELSE 0 - (Abs(a) \div Abs(b))

ASMod(a, b) == a - b * ASDiv(a, b)

\* variant of GridBounds with rows and columns exchanged
GridBoundsTransposed(idx, columns) ==
    LET rowNum == ASMod(idx - 1, columns) + 1
        colNum == ASDiv(idx - 1, columns) + 1
        xPos == (colNum - 1) * CellWidth
        yPos == (rowNum - 1) * CellHeight
    IN  <<xPos, yPos, xPos + CellWidth, yPos + CellHeight>>

\* the body of the repeat loop of the script (lines 69-73)
GridBounds(idx, columns) ==
    LET rowNum == ASDiv(idx - 1, columns) + 1
        colNum == ASMod(idx - 1, columns) + 1
        xPos == (colNum - 1) * CellWidth
        yPos == (rowNum - 1) * CellHeight
    IN  <<xPos, yPos, xPos + CellWidth, yPos + CellHeight>>

\* bounds of a window the script has not touched
PriorBounds == <<0, 0, 1, 1>>

\* osascript -e script: permitted = FALSE is automation denied; columns = 0
\* fails with a division by zero on the first window, before any bounds is set
RunOsascript(columns, n, permitted) ==
    IF ~permitted THEN [rc |-> 1, windows |-> [k \in 1..n |-> PriorBounds]]
    ELSE IF columns = 0 /\ n >= 1
         THEN [rc |-> 1, windows |-> [k \in 1..n |-> PriorBounds]]
         ELSE [rc |-> 0, windows |-> [k \in 1..n |-> GridBounds(k, columns)]]

\* arrange_windows_grid: the command issued and what it did; the result of
\* subprocess.run is dropped
arrange_windows_grid(columns, n, permitted) ==
    LET r == RunOsascript(columns, n, permitted)
    IN  [cmd |-> [columns |-> columns, rc |-> r.rc], windows |-> r.windows]

\* ------------------------------------------------------------------- main
\* variant of Truthy that only tests for None
TruthyNotNone(v) == v.tag # "None"

\* Python truth value of an argparse result: None and 0 are false
Truthy(v) ==
    IF v.tag = "None" THEN FALSE
    ELSE IF v.tag = "int" THEN v.val # 0
    ELSE TRUE

\* variant of the guard at line 104 that arranges whatever the listing is
ListingIgnored(items) == TRUE

\* if list_chrome_processes(): a non-empty list is true
ListingNonEmpty(items) == Len(items) > 0

RangeVal(s, e) == [tag |-> "range", start |-> s, end |-> e]

CreateArgs == {NoneVal} \cup { RangeVal(s, e) : s \in Idx, e \in Idx }

ArrangeArgs == {NoneVal} \cup { IntVal(n) : n \in (-1)..MaxCols }

VARIABLES
    pc,         \* where main is: parse, verify, create, arrange, osascript, exit
    args,       \* argparse result: [create, arrange]
    env,        \* what verify_environment finds: [chrome, osascript]
    procs,      \* the process table
    fs,         \* the file system at and under the base directory
    preFs,      \* fs when this invocation started
    prevCreate, \* --create range of the latest earlier invocation that created
    listed,     \* None, or the result of list_chrome_processes in this invocation
    osa,        \* automation commands issued in this invocation
    windows,    \* bounds of Chrome's windows after the automation command
    out,        \* lines this invocation printed
    raised,     \* None, or the exception that ended this invocation
    exitCode,   \* None while running, else the exit code
    runs        \* invocations started so far

vars == <<pc, args, env, procs, fs, preFs, prevCreate, listed, osa, windows,
          out, raised, exitCode, runs>>

NoArgs == [create |-> NoneVal, arrange |-> NoneVal]

\* env and procs before an invocation has looked at the machine
InitialEnv == [chrome |-> TRUE, osascript |-> TRUE]

Init ==
    /\ pc = "parse"
    /\ args = NoArgs
    /\ env = InitialEnv
    /\ procs = <<>>
    /\ fs = EmptyFs
    /\ preFs = EmptyFs
    /\ prevCreate = NoneVal
    /\ listed = NoneVal
    /\ osa = <<>>
    /\ windows = <<>>
    /\ out = <<>>
    /\ raised = None
    /\ exitCode = NoneVal
    /\ runs = 1

\* line 95: parser.parse_args(); the machine this invocation runs on (what is
\* installed, which processes run) is whatever the user has at that moment
ParseArgs ==
    /\ pc = "parse"
    /\ \E c \in CreateArgs, a \in ArrangeArgs : args' = [create |-> c, arrange |-> a]
    /\ env' \in Envs
    /\ procs' \in ProcTables
    /\ pc' = "verify"
    /\ UNCHANGED <<fs, preFs, prevCreate, listed, osa, windows, out,
                   raised, exitCode, runs>>

\* line 97: verify_environment()
Verify ==
    /\ pc = "verify"
    /\ LET msg == verify_environment(env)
       IN  IF msg # None
           THEN /\ pc' = "exit"
                /\ out' = Append(out, <<"stderr", msg>>)
                /\ raised' = "SystemExit"
                /\ exitCode' = IntVal(1)
           ELSE /\ pc' = "create"
                /\ UNCHANGED <<out, raised, exitCode>>
    /\ UNCHANGED <<args, env, procs, fs, preFs, prevCreate, listed, osa, windows, runs>>

\* lines 99-101: if args.create: create_env_scripts(...)
Create ==
    /\ pc = "create"
    /\ IF Truthy(args.create)
       THEN LET r == create_env_scripts(args.create.start, args.create.end, BaseDir, fs, out)
            IN  /\ fs' = r.fs
                /\ out' = IF r.err = None THEN r.out
                          ELSE Append(r.out, <<"stderr", r.err>>)
                /\ raised' = r.err
                /\ pc' = IF r.err = None THEN "arrange" ELSE "exit"
                /\ exitCode' = IF r.err = None THEN exitCode ELSE IntVal(1)
       ELSE /\ pc' = "arrange"
            /\ UNCHANGED <<fs, out, raised, exitCode>>
    /\ UNCHANGED <<args, env, procs, preFs, prevCreate, listed, osa, windows, runs>>

\* lines 103-104: if args.arrange: if list_chrome_processes():
List ==
    /\ pc = "arrange"
    /\ IF Truthy(args.arrange)
       THEN LET r == list_chrome_processes(procs)
            IN  IF r.err # None
                THEN /\ listed' = [tag |-> "raised", err |-> r.err]
                     /\ out' = Append(out, <<"stderr", r.err>>)
                     /\ raised' = r.err
                     /\ pc' = "exit"
                     /\ exitCode' = IntVal(1)
                ELSE /\ listed' = ListVal(r.items)
                     /\ UNCHANGED <<out, raised>>
                     /\ pc' = IF ListingNonEmpty(r.items) THEN "osascript" ELSE "exit"
                     /\ exitCode' = IF ListingNonEmpty(r.items) THEN exitCode ELSE IntVal(0)
       ELSE /\ pc' = "exit"
            /\ exitCode' = IntVal(0)
            /\ UNCHANGED <<listed, out, raised>>
    /\ UNCHANGED <<args, env, procs, fs, preFs, prevCreate, osa, windows, runs>>

\* line 105: arrange_windows_grid(columns=args.arrange), then main returns
Arrange ==
    /\ pc = "osascript"
    /\ \E n \in 0..MaxWin, permitted \in BOOLEAN :
          LET r == arrange_windows_grid(args.arrange.val, n, permitted)
          IN  /\ osa' = Append(osa, r.cmd)
              /\ windows' = r.windows
    /\ pc' = "exit"
    /\ exitCode' = IntVal(0)
    /\ UNCHANGED <<args, env, procs, fs, preFs, prevCreate, listed, out, raised, runs>>

\* the user runs the tool again on the same directory
NextInvocation ==
    /\ pc = "exit"
    /\ runs < MaxRuns
    /\ runs' = runs + 1
    /\ pc' = "parse"
    /\ args' = NoArgs
    /\ env' = InitialEnv
    /\ procs' = <<>>
    /\ preFs' = fs
    /\ prevCreate' = IF Truthy(args.create) /\ raised \notin {"SystemExit", "FileExistsError"}
                     THEN args.create ELSE prevCreate
    /\ listed' = NoneVal
    /\ osa' = <<>>
    /\ windows' = <<>>
    /\ out' = <<>>
    /\ raised' = None
    /\ exitCode' = NoneVal
    /\ UNCHANGED fs

Next == ParseArgs \/ Verify \/ Create \/ List \/ Arrange \/ NextInvocation

Spec == Init /\ [][Next]_vars

\* ------------------------------------------------------------ properties
\* main is past verify_environment
PastVerify == pc \in {"create", "arrange", "osascript", "exit"}

\* main is past the --create step
PastCreate == pc \in {"arrange", "osascript", "exit"} /\ raised # "SystemExit"

\* nothing but parsing and verification has happened in this invocation
NothingDone == fs = preFs /\ listed = NoneVal /\ osa = <<>> /\ windows = <<>>

\* C1: whatever --create and --arrange are, when the Chrome binary is missing
\* or osascript is not on the path the run ends in verify_environment with
\* nothing created, no process listing and no automation command; and nothing
\* is done before verify_environment has run.
C1_VerifyAbortsFirst ==
    /\ pc \in {"parse", "verify"} => NothingDone
    /\ (PastVerify /\ (~env.chrome \/ ~env.osascript)) =>
          /\ pc = "exit"
          /\ raised = "SystemExit"
          /\ exitCode = IntVal(1)
          /\ NothingDone

C1_Witness ==
    /\ pc = "exit"
    /\ env.chrome /\ ~env.osascript
    /\ args.create = RangeVal(1, 2)
    /\ args.arrange = IntVal(2)
    /\ \E k \in 1..Len(procs) : procs[k] = [name |-> "Google Chrome", cmdline |-> ManagedCmd]
    /\ raised = "SystemExit"

\* the per-index data directories of a file system
DataDirsOf(f) == f.dirs \ {BaseDir}

\* C2: create_env_scripts(start, end, dir) with start <= end on an empty base
\* directory ends with exactly end - start + 1 data directories dir/<i> and
\* end - start + 1 scripts dir/start-<i>.sh, one per i in start..end; script i
\* has port 9222 + (i - start), user-data-dir dir/<i> and mode 0755.
C2_CreateExact ==
    (/\ pc = "arrange"
     /\ args.create.tag = "range"
     /\ args.create.start <= args.create.end
     /\ DataDirsOf(preFs) = {} /\ DOMAIN preFs.files = {}) =>
       LET s == args.create.start
           e == args.create.end
       IN  /\ raised = None
           /\ DataDirsOf(fs) = { Join(BaseDir, ToString(i)) : i \in s..e }
           /\ Cardinality(DataDirsOf(fs)) = e - s + 1
           /\ DOMAIN fs.files = { ScriptPath(BaseDir, i) : i \in s..e }
           /\ Cardinality(DOMAIN fs.files) = e - s + 1
           /\ \A i \in s..e :
                LET f == fs.files[ScriptPath(BaseDir, i)]
                IN  /\ Len(f.content) = 1
                    /\ f.content[1].port = 9222 + (i - s)
                    /\ f.content[1].userDataDir = Join(BaseDir, ToString(i))
                    /\ f.content[1].bin = CHROME_PATH
                    /\ f.mode = 493

C2_Witness ==
    /\ pc = "arrange"
    /\ args.create = RangeVal(1, 2)
    /\ preFs = EmptyFs
    /\ Cardinality(DOMAIN fs.files) = 2
    /\ fs.files[ScriptPath(BaseDir, 2)].content[1].port = 9223

\* C3: a second create_env_scripts with the arguments of the one before it
\* leaves the directories, the scripts, their contents and their modes as the
\* first call left them, and does not fail because they exist.
C3_CreateIdempotent ==
    (/\ PastCreate
     /\ args.create.tag = "range"
     /\ args.create = prevCreate) =>
       /\ fs = preFs
       /\ raised # "FileExistsError"

C3_Witness ==
    /\ pc = "arrange"
    /\ runs = 2
    /\ args.create = RangeVal(1, 2)
    /\ prevCreate = RangeVal(1, 2)
    /\ Cardinality(DOMAIN fs.files) = 2
    /\ Len(out) = 2

\* C4: create_env_scripts(start, end, dir) with start > end is a silent no-op:
\* no script is written or changed, no per-index data directory is created,
\* no progress line is printed and no error is raised.
C4_EmptyRangeNoOp ==
    (/\ PastCreate
     /\ args.create.tag = "range"
     /\ args.create.start > args.create.end) =>
       /\ fs.files = preFs.files
       /\ DataDirsOf(fs) = DataDirsOf(preFs)
       /\ raised # "FileExistsError"
       /\ \A k \in 1..Len(out) : out[k][1] # "created"
       /\ pc = "arrange" => (raised = None /\ out = <<>>)

C4_Witness ==
    /\ pc = "arrange"
    /\ args.create = RangeVal(2, 1)
    /\ preFs = EmptyFs
    /\ fs = [dirs |-> {BaseDir}, files |-> <<>>]

Managed(p) ==
    /\ p.name = "Google Chrome"
    /\ p.cmdline.tag = "list"
    /\ \E k \in 1..Len(p.cmdline.items) : p.cmdline.items[k] = DataDirFlag

\* the positions of the managed processes of the table, in order
RECURSIVE ManagedFrom(_, _)
ManagedFrom(ps, k) ==
    IF k > Len(ps) THEN <<>>
    ELSE (IF Managed(ps[k]) THEN <<k>> ELSE <<>>) \o ManagedFrom(ps, k + 1)

\* C6: list_chrome_processes skips a process whose name or command line the
\* process facility reports as None, also one named "Google Chrome", and
\* returns the remaining matching processes without raising.
C6_ListingBestEffort ==
    listed # NoneVal =>
       /\ listed.tag = "list"
       /\ listed.items = ManagedFrom(procs, 1)

C7_AutomationFailureNotFatal ==
    (/\ pc = "exit"
     /\ osa # <<>>
     /\ osa[1].rc # 0) =>
       /\ exitCode = IntVal(0)
       /\ raised = None
       /\ args.create.tag = "range" =>
             \A i \in args.create.start..args.create.end :
                /\ DataDir(BaseDir, i) \in fs.dirs
                /\ ScriptPath(BaseDir, i) \in DOMAIN fs.files

\* C8: no automation command is issued when list_chrome_processes returns an
\* empty list, that is when no running process is named "Google Chrome" with
\* the user-data-dir flag in its command line.
C8_NoArrangeOnEmptyListing ==
    /\ listed = ListVal(<<>>) => osa = <<>>
    /\ (\A k \in 1..Len(procs) : ~Managed(procs[k])) => osa = <<>>
    /\ osa # <<>> => (listed.tag = "list" /\ Len(listed.items) > 0)

C8_Witness ==
    /\ pc = "exit"
    /\ args.arrange = IntVal(2)
    /\ listed = ListVal(<<>>)
    /\ Len(procs) = 2
    /\ procs[1] = [name |-> "Google Chrome", cmdline |-> PlainCmd]
    /\ osa = <<>>
    /\ exitCode = IntVal(0)

\* C9: after any sequence of create_env_scripts calls on one base directory,
\* no two launcher scripts of the directory carry the same port.
C9_PortsUnique ==
    \A p, q \in DOMAIN fs.files :
        p # q => fs.files[p].content[1].port # fs.files[q].content[1].port

\* verify_environment passed in this invocation
VerificationPassed == PastVerify /\ raised # "SystemExit"

====
